---- MODULE Spec2Model ----
(***************************************************************************)
(* Model of driver/runner.py: TestExecutor.execute and what it calls       *)
(* (feature discovery, BehaveRunner.run_sequential / run_parallel,         *)
(* run_feature, _process_results, AllureConverter.convert_results,         *)
(* AllureReportGenerator.generate, the two cleanups), of                   *)
(* common/utils.py: load_settings, and of the driver helpers of            *)
(* driver/environment_helpers.py as the Behave hooks call them.            *)
(*                                                                         *)
(* Units are identified by their position 1..N in feature_files.  The      *)
(* directory temp_results/result_d is identified by d.  A path is a        *)
(* sequence of names whose first element is its root: "base" is            *)
(* PROJECT_ROOT/<features_dir>, "cwd" is the working directory, "/" is the *)
(* filesystem root.                                                        *)
(*                                                                         *)
(* Spec is execute as a whole.  SpecDisc is _get_feature_files called      *)
(* twice on one tree, SpecConv is _build_allure_scenario on one Behave     *)
(* element, SpecBatch is the loop of convert_results over a batch of       *)
(* files.  SpecRerun is execute where an earlier run left its directories, *)
(* SpecLive the parallel run under fair scheduling, SpecLog the printing   *)
(* of the pool threads, SpecSettings load_settings called from several     *)
(* threads, SpecDriver the scenario hooks creating and closing drivers.    *)
(***************************************************************************)
EXTENDS Integers, Sequences, FiniteSets, TLC

\* ---------------------------------------------------------------- bounds
MaxUnits == 2        \* most feature files directly under the base directory
MaxWorkers == 2      \* largest --workers value tried (0 stands for any value <= 0)
MaxScenarios == 1    \* most scenarios in one results.json
MaxSteps == 2        \* most steps of one Behave element
MaxFiles == 2        \* most *.json files under json_results_dir
MaxThreads == 2      \* threads calling load_settings
MaxCalls == 2        \* calls of load_settings per thread
MaxHooks == 3        \* scenario hooks run on one context

\* ---------------------------------- state of the discovery and converter runs
VARIABLES
    phase,           \* where a discovery or converter run stands
    scan,            \* order in which the directory hands out its entries
    found,           \* discovery run: list of the first call
    found_again,     \* discovery run: list of the second call
    element,         \* converter run: the Behave element being converted
    scenario,        \* converter run: what _build_allure_scenario returned
    batch,           \* batch run: the *.json files under json_results_dir
    visited,         \* batch run: files the loop of convert_results has handled
    converted_count, \* batch run: converted_count of convert_results
    written,         \* batch run: records written, as <<file, j>>
    warned           \* batch run: files a "Could not convert" line was printed for

aux == <<phase, scan, found, found_again, element, scenario, batch, visited,
         converted_count, written, warned>>

\* ------------------------------------------- state of the load_settings run
VARIABLES
    _settings_cache, \* utils._settings_cache: 0 for None, else the dict loaded
    _settings_lock,  \* utils._settings_lock: 0 when free, else the thread holding it
    config,          \* the configuration file: "missing", "json" or "garbage"
    reads,           \* how often the file has been opened and read
    caller           \* per thread: [pc, calls, hit, read, ret] of its load_settings call

svars == <<_settings_cache, _settings_lock, config, reads, caller>>

\* ------------------------------------------- state of the failure-log run
VARIABLES
    pool_size,       \* max_workers of the pool
    printer,         \* per unit: where its run_feature call stands
    captured,        \* per unit: the CompletedProcess of its subprocess
    console          \* the lines printed so far, as [unit, line, size]

lvars == <<pool_size, printer, captured, console>>

\* ------------------------------------------- state of the scenario-hook run
VARIABLES
    context_driver,  \* context.driver: 0 for None or unset, else a driver
    created,         \* number of WebDrivers created; they are 1..created
    quit_called,     \* drivers whose quit() has been called
    closed,          \* drivers close_driver has been called with
    tries,           \* create_driver: outcome of each attempt of the current call
    hook,            \* the hook in progress and how create_driver ended
    hooks_run        \* number of hooks started

dvars == <<context_driver, created, quit_called, closed, tries, hook, hooks_run>>

ext == <<svars, lvars, dvars>>

SettingsIdle ==
    /\ _settings_cache = 0
    /\ _settings_lock = 0
    /\ config = "missing"
    /\ reads = 0
    /\ caller = <<>>

LogIdle ==
    /\ pool_size = 0
    /\ printer = <<>>
    /\ captured = <<>>
    /\ console = <<>>

DriverIdle ==
    /\ context_driver = 0
    /\ created = 0
    /\ quit_called = {}
    /\ closed = {}
    /\ tries = <<>>
    /\ hook = "off"
    /\ hooks_run = 0

\* --------------------------------------------------------------- helpers
Range(s) == {s[k] : k \in DOMAIN s}

Last(s) == s[Len(s)]

\* ------------------------------------------------------------ filesystem
\* Names that end in ".feature", in lexicographic order.
FeatureNames == <<"a.feature", "b.feature", "c.feature", "d.feature", "e.feature">>

NameRank(n) == CHOOSE k \in DOMAIN FeatureNames : FeatureNames[k] = n

BaseDir == <<"base">>

\* A filesystem: base directory present or not, k feature files directly under
\* it, s feature files in its subfolder "sub" (the folder exists either way),
\* and optionally a.feature in the working directory.
MkFs(b, k, s, g) ==
    [dirs  |-> IF b THEN {BaseDir, BaseDir \o <<"sub">>} ELSE {},
     files |-> (IF b THEN {BaseDir \o <<FeatureNames[n]>> : n \in 1..k}
                          \cup {BaseDir \o <<"sub", FeatureNames[n]>> : n \in 1..s}
                     ELSE {})
               \cup (IF g THEN {<<"cwd", "a.feature">>} ELSE {})]

\* The trees tried: no base directory; 0..MaxUnits files under the base and an
\* empty subfolder; a file in the subfolder and one in the working directory.
FsCases ==
    {MkFs(FALSE, 0, 0, TRUE)}
    \cup {MkFs(TRUE, k, 0, FALSE) : k \in 0..MaxUnits}
    \cup {MkFs(TRUE, k, 1, TRUE) : k \in 0..1}

exists(f, p) == p \in f.files \cup f.dirs

is_file(f, p) == p \in f.files

\* str.endswith('.feature') on the selector
endswith_feature(sel) == Len(sel.parts) > 0 /\ Last(sel.parts) \in Range(FeatureNames)

\* The components a selector's lead stands for: pathlib drops "./", keeps "..".
LeadParts(lead) == IF lead = "../" THEN <<"..">> ELSE <<>>

\* Path(feature_name): absolute when it starts with "/", else relative to cwd
GivenPath(sel) ==
    IF sel.lead = "/" THEN <<"/">> \o sel.parts
    ELSE <<"cwd">> \o LeadParts(sel.lead) \o sel.parts

\* base / name: pathlib drops the left side when the right side is absolute
JoinBase(sel) ==
    IF sel.lead = "/" THEN <<"/">> \o sel.parts
    ELSE BaseDir \o LeadParts(sel.lead) \o sel.parts

\* str.lstrip('./'): every leading '.' and '/' character goes, so the whole
\* lead is removed, whichever it is.
lstrip(sel) == sel.parts

\* Path.glob('*.feature'): the children of dir whose name ends in .feature
glob_feature(f, dir) ==
    IF dir \notin f.dirs THEN {}
    ELSE {p \in f.files \cup f.dirs :
            /\ Len(p) = Len(dir) + 1
            /\ SubSeq(p, 1, Len(dir)) = dir
            /\ Last(p) \in Range(FeatureNames)}

\* Mutant of sorted: the paths stay in the order the directory handed them out.
RECURSIVE sorted_ScanOrder(_)
sorted_ScanOrder(S) ==
    IF S = {} THEN <<>>
    ELSE LET m == CHOOSE p \in S :
                     \A q \in S : scan[NameRank(Last(p))] <= scan[NameRank(Last(q))]
         IN <<m>> \o sorted_ScanOrder(S \ {m})

\* sorted(): paths of one directory compare by their last component
RECURSIVE sorted(_)
sorted(S) ==
    IF S = {} THEN <<>>
    ELSE LET m == CHOOSE p \in S : \A q \in S : NameRank(Last(p)) <= NameRank(Last(q))
         IN <<m>> \o sorted(S \ {m})

\* --feature values: None, or [lead, parts]; lead is the run of '.' and '/'
\* characters the value starts with ("", "./", "../" or "/").
None == [lead |-> "", parts |-> <<>>]

Selectors ==
    { None,
      [lead |-> "",   parts |-> <<"a.feature">>],
      [lead |-> "./", parts |-> <<"sub", "a.feature">>],
      [lead |-> "",   parts |-> <<"sub">>],
      [lead |-> "",   parts |-> <<"gone">>] }

\* Mutant of _get_feature_files: the named file is returned without the
\* exists()/is_file() test of line 482.
_get_feature_files_Unchecked(f, feature_name) ==
    IF ~exists(f, BaseDir) THEN <<>>
    ELSE IF feature_name # None /\ endswith_feature(feature_name)
    THEN <<BaseDir \o feature_name.parts>>
    ELSE LET features_dir == IF feature_name # None THEN JoinBase(feature_name) ELSE BaseDir
         IN sorted(glob_feature(f, features_dir))

\* TestExecutor._get_feature_files
_get_feature_files(f, feature_name) ==
    IF ~exists(f, BaseDir) THEN <<>>
    ELSE IF feature_name # None /\ endswith_feature(feature_name)
    THEN LET clean_path == lstrip(feature_name)
             rel == BaseDir \o clean_path
             feature_path == IF ~exists(f, rel) THEN GivenPath(feature_name) ELSE rel
         IN IF exists(f, feature_path) /\ is_file(f, feature_path)
            THEN <<feature_path>>
            ELSE <<>>
    ELSE LET features_dir == IF feature_name # None THEN JoinBase(feature_name) ELSE BaseDir
         IN sorted(glob_feature(f, features_dir))

\* ------------------------------------------------------------- the state
VARIABLES
    mode,            \* CLIArgumentParser.parse: --mode
    workers,         \* CLIArgumentParser.parse: --workers
    feature_name,    \* CLIArgumentParser.parse: --feature
    auto_generate,   \* settings['auto_generate_report']
    fs,              \* the feature tree on disk (never written by the runner)
    pc,              \* where execute (the main thread) stands
    feature_files,   \* execute: the discovered list
    index,           \* the enumerate() counter of the scheduler's loop
    unit,            \* per list position: [st, rc, dir, calls]
    temp_exists,     \* ./temp_results exists
    temp_results,    \* result_d directories under temp_results -> results.json in it
    result_dirs,     \* the list run_sequential / run_parallel builds
    yielded,         \* futures as_completed has already handed out
    allure_exists,   \* the allure_results directory exists
    allure,          \* <uuid>-result.json records in it, as <<d, j>>: scenario j of result_d
    converted,       \* _process_results: what convert_results returned
    report,          \* what AllureReportGenerator.generate did
    exit_code,       \* value of the return statement execute evaluated; -1: none yet
    pending,         \* exception propagating out of execute
    cleanup,         \* what _cleanup_temp_files did to ./temp_results
    report_history,  \* <report_dir>/history exists
    results_history, \* <allure_results_dir>/history exists
    earlier          \* what an earlier run left on disk: [merged, temp]

rvars == <<mode, workers, feature_name, auto_generate, fs, pc, feature_files, index,
           unit, temp_exists, temp_results, result_dirs, yielded, allure_exists,
           allure, converted, report, exit_code, pending, cleanup, report_history,
           results_history, earlier>>

vars == <<rvars, aux, ext>>

N == Len(feature_files)

Units == 1..N

\* results.json of one unit: absent, not parseable as a list of features, or a
\* well-formed list holding `scenarios` non-background elements (none, or the
\* most tried).
NoFile == [state |-> "none", scenarios |-> 0]

FileContents ==
    {NoFile, [state |-> "malformed", scenarios |-> 0]}
    \cup {[state |-> "ok", scenarios |-> k] : k \in {0, MaxScenarios}}

\* What one call of run_feature can do: return the subprocess exit code (0, or 1
\* for any non-zero code) or raise (mkdir, print or subprocess.run failing);
\* either way the subprocess may or may not have left a results.json.  For a
\* call that raises, the file is tried absent and with the most scenarios.
Outcomes ==
    {[kind |-> "return", rc |-> r, file |-> c] : r \in {0, 1}, c \in FileContents}
    \cup {[kind |-> "raise", rc |-> 0, file |-> c] :
            c \in {NoFile, [state |-> "ok", scenarios |-> MaxScenarios]}}

\* result_k of an earlier run that had more features than any run tried here
StaleDir == MaxUnits + MaxFiles + 1

\* The results.json an earlier run left in StaleDir
StaleFile == [state |-> "ok", scenarios |-> MaxScenarios]

\* The scenario records an earlier run left in the merged results directory
StaleRecords == {StaleDir} \X (1..MaxScenarios)

NothingLeft == [merged |-> FALSE, temp |-> FALSE]

\* An earlier run left allure_results (it is never removed at the end of a
\* run) and, its own cleanup having failed, allure_json_temp.
BothLeft == [merged |-> TRUE, temp |-> TRUE]

NewUnit == [st |-> "new", rc |-> 0, dir |-> 0, calls |-> 0]

Running == {i \in Units : unit[i].st = "running"}

Queued == {i \in Units : unit[i].st = "queued"}

Finished == {i \in Units : unit[i].st \in {"returned", "raised"}}

\* The discovery and converter runs are not in progress.
AuxIdle ==
    /\ phase = "off"
    /\ scan = <<>>
    /\ found = <<>>
    /\ found_again = <<>>
    /\ element = <<>>
    /\ scenario = <<>>
    /\ batch = <<>>
    /\ visited = {}
    /\ converted_count = 0
    /\ written = {}
    /\ warned = {}

Init ==
    /\ AuxIdle
    /\ SettingsIdle /\ LogIdle /\ DriverIdle
    /\ mode \in {"single", "parallel"}
    /\ workers \in (IF mode = "parallel" THEN 0..MaxWorkers ELSE {1})
    /\ feature_name \in Selectors
    /\ auto_generate \in BOOLEAN
    /\ fs \in FsCases
    /\ pc = "discover"
    /\ feature_files = <<>>
    /\ index = 0
    /\ unit = <<>>
    /\ earlier = NothingLeft
    /\ temp_exists = earlier.temp
    /\ temp_results = (IF earlier.temp THEN StaleDir :> StaleFile ELSE <<>>)
    /\ result_dirs = <<>>
    /\ yielded = {}
    /\ allure_exists = earlier.merged
    /\ allure = (IF earlier.merged THEN StaleRecords ELSE {})
    /\ converted = 0
    /\ report = "none"
    /\ exit_code = -1
    /\ pending = "none"
    /\ cleanup = "none"
    /\ report_history \in (IF auto_generate THEN BOOLEAN ELSE {FALSE})
    /\ results_history = FALSE

\* ------------------------------------------------------- TestExecutor.execute
\* lines 436-438: discovery; an empty list returns 1 before the try block
Discover ==
    /\ pc = "discover"
    /\ feature_files' = _get_feature_files(fs, feature_name)
    /\ unit' = [i \in 1..Len(feature_files') |-> NewUnit]
    /\ IF feature_files' = <<>>
       THEN /\ exit_code' = 1
            /\ pc' = "done"
       ELSE /\ exit_code' = exit_code
            /\ pc' = "cleanup_old"
    /\ UNCHANGED <<mode, workers, feature_name, auto_generate, fs, index, temp_exists,
                   temp_results, result_dirs, yielded, allure_exists, allure,
                   converted, report, pending>>
    /\ UNCHANGED <<cleanup, report_history, results_history, earlier>>
    /\ UNCHANGED <<aux, ext>>

\* Mutant of CleanupOldResults: the merged results directory is left in place.
CleanupOldResults_KeepMerged(failed) ==
    /\ pc = "cleanup_old"
    /\ failed = "none"
    /\ temp_exists' = FALSE
    /\ temp_results' = <<>>
    /\ pc' = "run"
    /\ UNCHANGED <<mode, workers, feature_name, auto_generate, fs, feature_files, index,
                   unit, result_dirs, yielded, allure_exists, allure, converted,
                   report, exit_code, pending>>
    /\ UNCHANGED <<cleanup, report_history, results_history, earlier>>
    /\ UNCHANGED <<aux, ext>>

\* TestExecutor._cleanup_old_results, called before the try block: rmtree of
\* allure_results, then of allure_json_temp, each only when it exists.  rmtree
\* has no ignore_errors: `failed` names the directory whose removal raises, and
\* the exception leaves execute.
CleanupOldResults(failed) ==
    /\ pc = "cleanup_old"
    /\ failed = "merged" => allure_exists
    /\ failed = "temp" => temp_exists
    /\ IF failed = "merged"
       THEN UNCHANGED <<allure_exists, allure, results_history>>
       ELSE /\ allure_exists' = FALSE
            /\ allure' = {}
            /\ results_history' = FALSE
    /\ IF failed = "none"
       THEN /\ temp_exists' = FALSE
            /\ temp_results' = <<>>
            /\ pc' = "run"
            /\ pending' = pending
       ELSE /\ UNCHANGED <<temp_exists, temp_results>>
            /\ pc' = "aborted"
            /\ pending' = "rmtree"
    /\ UNCHANGED <<mode, workers, feature_name, auto_generate, fs, feature_files, index,
                   unit, result_dirs, yielded, converted, report, exit_code>>
    /\ UNCHANGED <<cleanup, report_history, earlier>>
    /\ UNCHANGED <<aux, ext>>

\* -------------------------------------------------------------- run_feature
\* output_dir.mkdir(parents=True, exist_ok=True): result_d exists afterwards,
\* what it already holds is kept
mkdir(tr, d) == IF d \in DOMAIN tr THEN tr ELSE (d :> NoFile) @@ tr

\* the subprocess writes (or fails to write) <output_dir>/results.json
write_results(tr, d, c) == IF c = NoFile THEN tr ELSE [tr EXCEPT ![d] = c]

\* ------------------------------------------------- BehaveRunner.run_sequential
\* enumerate(feature_files, start=1): output_dir = temp_results / f'result_{index}'
SeqOutputDir(idx) == idx

\* _run_tests takes the else branch; lines 79-80
RunSequentialEnter ==
    /\ pc = "run"
    /\ mode # "parallel"
    /\ temp_exists' = TRUE
    /\ result_dirs' = <<>>
    /\ index' = 1
    /\ pc' = "seq_loop"
    /\ UNCHANGED <<mode, workers, feature_name, auto_generate, fs, feature_files, unit,
                   temp_results, yielded, allure_exists, allure, converted, report,
                   exit_code, pending>>
    /\ UNCHANGED <<cleanup, report_history, results_history, earlier>>
    /\ UNCHANGED <<aux, ext>>

\* lines 82-84: the loop takes the next unit and calls run_feature for it
SeqCall ==
    /\ pc = "seq_loop"
    /\ index <= N
    /\ LET d == SeqOutputDir(index)
       IN /\ unit' = [unit EXCEPT ![index] = [st |-> "running", rc |-> 0, dir |-> d,
                                               calls |-> @.calls + 1]]
          /\ temp_results' = mkdir(temp_results, d)
    /\ pc' = "seq_call"
    /\ UNCHANGED <<mode, workers, feature_name, auto_generate, fs, feature_files, index,
                   temp_exists, result_dirs, yielded, allure_exists, allure, converted,
                   report, exit_code, pending>>
    /\ UNCHANGED <<cleanup, report_history, results_history, earlier>>
    /\ UNCHANGED <<aux, ext>>

\* Mutant of SeqFinish: a non-zero exit code ends the loop.
SeqFinish_StopOnFailure(o) ==
    /\ pc = "seq_call"
    /\ temp_results' = write_results(temp_results, unit[index].dir, o.file)
    /\ IF o.kind = "return"
       THEN /\ unit' = [unit EXCEPT ![index].st = "returned", ![index].rc = o.rc]
            /\ result_dirs' = Append(result_dirs, unit[index].dir)
            /\ index' = index + 1
            /\ pc' = IF o.rc # 0 THEN "process" ELSE "seq_loop"
            /\ UNCHANGED pending
       ELSE /\ unit' = [unit EXCEPT ![index].st = "raised"]
            /\ pending' = "exception"
            /\ pc' = "finally"
            /\ UNCHANGED <<result_dirs, index>>
    /\ UNCHANGED <<mode, workers, feature_name, auto_generate, fs, feature_files,
                   temp_exists, yielded, allure_exists, allure, converted, report,
                   exit_code>>
    /\ UNCHANGED <<cleanup, report_history, results_history, earlier>>
    /\ UNCHANGED <<aux, ext>>

\* lines 84-85: run_feature returns (its exit code is dropped, the directory is
\* appended and the loop goes on) or raises (nothing in run_sequential catches
\* it: it leaves the try block of execute)
SeqFinish(o) ==
    /\ pc = "seq_call"
    /\ temp_results' = write_results(temp_results, unit[index].dir, o.file)
    /\ IF o.kind = "return"
       THEN /\ unit' = [unit EXCEPT ![index].st = "returned", ![index].rc = o.rc]
            /\ result_dirs' = Append(result_dirs, unit[index].dir)
            /\ index' = index + 1
            /\ pc' = "seq_loop"
            /\ UNCHANGED pending
       ELSE /\ unit' = [unit EXCEPT ![index].st = "raised"]
            /\ pending' = "exception"
            /\ pc' = "finally"
            /\ UNCHANGED <<result_dirs, index>>
    /\ UNCHANGED <<mode, workers, feature_name, auto_generate, fs, feature_files,
                   temp_exists, yielded, allure_exists, allure, converted, report,
                   exit_code>>
    /\ UNCHANGED <<cleanup, report_history, results_history, earlier>>
    /\ UNCHANGED <<aux, ext>>

\* Mutant of SeqReturn: the loop may end one unit early.
SeqReturn_OffByOne ==
    /\ pc = "seq_loop"
    /\ index >= N
    /\ pc' = "process"
    /\ UNCHANGED <<mode, workers, feature_name, auto_generate, fs, feature_files, index,
                   unit, temp_exists, temp_results, result_dirs, yielded, allure_exists,
                   allure, converted, report, exit_code, pending>>
    /\ UNCHANGED <<cleanup, report_history, results_history, earlier>>
    /\ UNCHANGED <<aux, ext>>

\* line 87: the loop is exhausted
SeqReturn ==
    /\ pc = "seq_loop"
    /\ index > N
    /\ pc' = "process"
    /\ UNCHANGED <<mode, workers, feature_name, auto_generate, fs, feature_files, index,
                   unit, temp_exists, temp_results, result_dirs, yielded, allure_exists,
                   allure, converted, report, exit_code, pending>>
    /\ UNCHANGED <<cleanup, report_history, results_history, earlier>>
    /\ UNCHANGED <<aux, ext>>


\* --------------------------------------------------- BehaveRunner.run_parallel
\* Mutant of ParOutputDir: one directory for every unit.
ParOutputDir_Shared(idx) == 1

\* Mutant of ParOutputDir: the zero-based counter is used as it is.
ParOutputDir_ZeroBased(idx) == idx

\* enumerate(feature_files): output_dir = temp_results / f'result_{index + 1}'
ParOutputDir(idx) == idx + 1

\* _run_tests takes the parallel branch; lines 100-104.  ThreadPoolExecutor
\* raises ValueError for max_workers <= 0, after temp_results was created.
RunParallelEnter ==
    /\ pc = "run"
    /\ mode = "parallel"
    /\ temp_exists' = TRUE
    /\ result_dirs' = <<>>
    /\ index' = 0
    /\ IF workers <= 0
       THEN /\ pending' = "exception"
            /\ pc' = "finally"
       ELSE /\ pending' = pending
            /\ pc' = "submit"
    /\ UNCHANGED <<mode, workers, feature_name, auto_generate, fs, feature_files, unit,
                   temp_results, yielded, allure_exists, allure, converted, report,
                   exit_code>>
    /\ UNCHANGED <<cleanup, report_history, results_history, earlier>>
    /\ UNCHANGED <<aux, ext>>

\* lines 106-110: the directory is made, then the unit is submitted
Submit ==
    /\ pc = "submit"
    /\ index < N
    /\ LET d == ParOutputDir(index)
       IN /\ temp_results' = mkdir(temp_results, d)
          /\ unit' = [unit EXCEPT ![index + 1] = [st |-> "queued", rc |-> 0, dir |-> d,
                                                   calls |-> @.calls]]
    /\ index' = index + 1
    /\ UNCHANGED <<mode, workers, feature_name, auto_generate, fs, pc, feature_files,
                   temp_exists, result_dirs, yielded, allure_exists, allure, converted,
                   report, exit_code, pending>>
    /\ UNCHANGED <<cleanup, report_history, results_history, earlier>>
    /\ UNCHANGED <<aux, ext>>

\* line 112: every unit is submitted, the main thread turns to as_completed
SubmitDone ==
    /\ pc = "submit"
    /\ index >= N
    /\ pc' = "await"
    /\ UNCHANGED <<mode, workers, feature_name, auto_generate, fs, feature_files, index,
                   unit, temp_exists, temp_results, result_dirs, yielded, allure_exists,
                   allure, converted, report, exit_code, pending>>
    /\ UNCHANGED <<cleanup, report_history, results_history, earlier>>
    /\ UNCHANGED <<aux, ext>>

\* Mutant of WorkerStart: pool threads pick up work only while the main thread
\* is still submitting.
WorkerStart_OnlyWhileSubmitting(i) ==
    /\ pc = "submit"
    /\ i \in Queued
    /\ \A j \in Queued : i <= j
    /\ Cardinality(Running) < workers
    /\ unit' = [unit EXCEPT ![i].st = "running", ![i].calls = @ + 1]
    /\ temp_results' = mkdir(temp_results, unit[i].dir)
    /\ UNCHANGED <<mode, workers, feature_name, auto_generate, fs, pc, feature_files,
                   index, temp_exists, result_dirs, yielded, allure_exists, allure,
                   converted, report, exit_code, pending>>
    /\ UNCHANGED <<cleanup, report_history, results_history, earlier>>
    /\ UNCHANGED <<aux, ext>>

\* A pool thread takes the oldest queued work item (the pool's queue is FIFO
\* and it has at most max_workers threads) and calls run_feature (line 109).
WorkerStart(i) ==
    /\ pc \in {"submit", "await"}
    /\ i \in Queued
    /\ \A j \in Queued : i <= j
    /\ Cardinality(Running) < workers
    /\ unit' = [unit EXCEPT ![i].st = "running", ![i].calls = @ + 1]
    /\ temp_results' = mkdir(temp_results, unit[i].dir)
    /\ UNCHANGED <<mode, workers, feature_name, auto_generate, fs, pc, feature_files,
                   index, temp_exists, result_dirs, yielded, allure_exists, allure,
                   converted, report, exit_code, pending>>
    /\ UNCHANGED <<cleanup, report_history, results_history, earlier>>
    /\ UNCHANGED <<aux, ext>>

\* run_feature ends in the pool thread: the future holds its result or its exception
WorkerFinish(i, o) ==
    /\ pc \in {"submit", "await"}
    /\ i \in Running
    /\ temp_results' = write_results(temp_results, unit[i].dir, o.file)
    /\ unit' = [unit EXCEPT ![i].st = IF o.kind = "return" THEN "returned" ELSE "raised",
                            ![i].rc = o.rc]
    /\ UNCHANGED <<mode, workers, feature_name, auto_generate, fs, pc, feature_files,
                   index, temp_exists, result_dirs, yielded, allure_exists, allure,
                   converted, report, exit_code, pending>>
    /\ UNCHANGED <<cleanup, report_history, results_history, earlier>>
    /\ UNCHANGED <<aux, ext>>

\* Mutant of AsCompleted: no try/except around future.result().
AsCompleted_NoCatch(i) ==
    /\ pc = "await"
    /\ i \in Finished \ yielded
    /\ yielded' = yielded \cup {i}
    /\ IF unit[i].st = "returned"
       THEN /\ result_dirs' = Append(result_dirs, unit[i].dir)
            /\ UNCHANGED <<pc, pending>>
       ELSE /\ pending' = "exception"
            /\ pc' = "finally"
            /\ UNCHANGED result_dirs
    /\ UNCHANGED <<mode, workers, feature_name, auto_generate, fs, feature_files,
                   index, unit, temp_exists, temp_results, allure_exists, allure,
                   converted, report, exit_code>>
    /\ UNCHANGED <<cleanup, report_history, results_history, earlier>>
    /\ UNCHANGED <<aux, ext>>

\* lines 112-118: as_completed hands out a finished future; future.result()
\* returns and the directory is appended, or raises and the error is printed
AsCompleted(i) ==
    /\ pc = "await"
    /\ i \in Finished \ yielded
    /\ yielded' = yielded \cup {i}
    /\ result_dirs' = IF unit[i].st = "returned"
                      THEN Append(result_dirs, unit[i].dir)
                      ELSE result_dirs
    /\ UNCHANGED <<mode, workers, feature_name, auto_generate, fs, pc, feature_files,
                   index, unit, temp_exists, temp_results, allure_exists, allure,
                   converted, report, exit_code, pending>>
    /\ UNCHANGED <<cleanup, report_history, results_history, earlier>>
    /\ UNCHANGED <<aux, ext>>

\* Mutant of PoolDrained: return after the first finished future, without
\* waiting for the pool.
PoolDrained_FirstCompleted == yielded # {}

\* as_completed (line 112) ends once it has handed out every future, and the
\* with block (line 103) leaves through shutdown(wait=True)
PoolDrained == yielded = Units /\ Running = {} /\ Queued = {}

\* line 120
ParallelReturn ==
    /\ pc = "await"
    /\ PoolDrained
    /\ pc' = "process"
    /\ UNCHANGED <<mode, workers, feature_name, auto_generate, fs, feature_files, index,
                   unit, temp_exists, temp_results, result_dirs, yielded, allure_exists,
                   allure, converted, report, exit_code, pending>>
    /\ UNCHANGED <<cleanup, report_history, results_history, earlier>>
    /\ UNCHANGED <<aux, ext>>


\* ------------------------------------------------ AllureConverter.convert_results
\* Mutant of convert_results: a file that does not parse aborts the batch.
convert_results_AbortOnMalformed(tr) ==
    IF \E e \in DOMAIN tr : tr[e].state = "malformed"
    THEN {}
    ELSE {r \in (DOMAIN tr) \X (1..MaxScenarios) :
            tr[r[1]].state = "ok" /\ r[2] <= tr[r[1]].scenarios}

\* One record per scenario of every well-formed results.json found anywhere
\* under json_results_dir (glob '**/*.json'); a file that does not parse, or
\* is not a list of features, raises inside the try of the loop and adds none.
convert_results(tr) ==
    {r \in (DOMAIN tr) \X (1..MaxScenarios) :
        tr[r[1]].state = "ok" /\ r[2] <= tr[r[1]].scenarios}

\* ------------------------------------------------ TestExecutor._process_results
\* lines 528-530: the *.json files of the directories the scheduler returned
all_json_files(dirs, tr) ==
    SelectSeq(dirs, LAMBDA d : d \in DOMAIN tr /\ tr[d] # NoFile)

\* Mutant of ReturnCode: success whatever was converted.
ReturnCode_AlwaysZero(count) == 0

\* lines 541-556: 0 after a conversion that wrote a record, else 1
ReturnCode(count) == IF count > 0 THEN 0 ELSE 1

\* lines 525-535
ProcessResults ==
    /\ pc = "process"
    /\ allure_exists' = TRUE
    /\ IF all_json_files(result_dirs, temp_results) # <<>>
       THEN /\ pc' = "convert"
            /\ exit_code' = exit_code
       ELSE /\ pc' = "finally"
            /\ exit_code' = 1
    /\ UNCHANGED <<mode, workers, feature_name, auto_generate, fs, feature_files, index,
                   unit, temp_exists, temp_results, result_dirs, yielded, allure,
                   converted, report, pending>>
    /\ UNCHANGED <<cleanup, report_history, results_history, earlier>>
    /\ UNCHANGED <<aux, ext>>

\* lines 536-553: convert_results over all of temp_results, then the verdict
ConvertResults ==
    /\ pc = "convert"
    /\ allure' = allure \cup convert_results(temp_results)
    /\ converted' = Cardinality(convert_results(temp_results))
    /\ IF converted' > 0 /\ auto_generate
       THEN /\ pc' = "generate"
            /\ exit_code' = exit_code
       ELSE /\ pc' = "finally"
            /\ exit_code' = ReturnCode(converted')
    /\ UNCHANGED <<mode, workers, feature_name, auto_generate, fs, feature_files, index,
                   unit, temp_exists, temp_results, result_dirs, yielded, allure_exists,
                   report, pending>>
    /\ UNCHANGED <<cleanup, report_history, results_history, earlier>>
    /\ UNCHANGED <<aux, ext>>

\* ------------------------------------------------ AllureReportGenerator.generate
\* Mutant of _preserve_history: nothing is copied.
_preserve_history_NoCopy(old_history, new_history) == new_history

\* AllureReportGenerator._preserve_history: whether <results>/history exists
\* afterwards, given whether <report_dir>/history and <results>/history exist
_preserve_history(old_history, new_history) ==
    IF old_history THEN TRUE ELSE new_history

\* lines 335-343 and 359-363: `allure --version`; a non-zero exit raises
\* FileNotFoundError, which generate catches: it prints the hint and returns
\* False, which line 548 drops
GenerateCheck(cli) ==
    /\ pc = "generate"
    /\ IF cli
       THEN /\ pc' = "preserve"
            /\ UNCHANGED <<report, exit_code>>
       ELSE /\ report' = "no_cli"
            /\ exit_code' = ReturnCode(converted)
            /\ pc' = "finally"
    /\ UNCHANGED <<mode, workers, feature_name, auto_generate, fs, feature_files, index,
                   unit, temp_exists, temp_results, result_dirs, yielded, allure_exists,
                   allure, converted, pending, cleanup, report_history, results_history, earlier>>
    /\ UNCHANGED <<aux, ext>>

\* lines 345-346
PreserveHistory ==
    /\ pc = "preserve"
    /\ results_history' = _preserve_history(report_history, results_history)
    /\ pc' = "allure_generate"
    /\ UNCHANGED <<mode, workers, feature_name, auto_generate, fs, feature_files, index,
                   unit, temp_exists, temp_results, result_dirs, yielded, allure_exists,
                   allure, converted, report, exit_code, pending, cleanup,
                   report_history, earlier>>
    /\ UNCHANGED <<aux, ext>>

\* lines 348-357 and 365-369: `allure generate <results> -o <report_dir> --clean`.
\* On success the new report holds a history folder; a non-zero exit raises
\* CalledProcessError, which generate catches.
GenerateReport(ok) ==
    /\ pc = "allure_generate"
    /\ report' = IF ok THEN "ok" ELSE "failed"
    /\ report_history' = (ok \/ report_history)
    /\ exit_code' = ReturnCode(converted)
    /\ pc' = "finally"
    /\ UNCHANGED <<mode, workers, feature_name, auto_generate, fs, feature_files, index,
                   unit, temp_exists, temp_results, result_dirs, yielded, allure_exists,
                   allure, converted, pending, cleanup, results_history, earlier>>
    /\ UNCHANGED <<aux, ext>>

\* The finally block of execute (line 454).  ./temp_results is removed with
\* ignore_errors=True: when that fails the directory stays and nothing is
\* raised.  Then the legacy path ./allure_json_output: "absent", a directory
\* (rmtree, ignore_errors=True), a file that unlink() removes ("file"), or a
\* file on which unlink() raises ("file_locked").  Afterwards execute returns
\* exit_code, or the pending exception leaves it.
CleanupTempFiles(removed, legacy) ==
    /\ pc = "finally"
    /\ IF temp_exists
       THEN /\ cleanup' = IF removed THEN "removed" ELSE "failed"
            /\ temp_exists' = ~removed
            /\ temp_results' = IF removed THEN <<>> ELSE temp_results
       ELSE /\ cleanup' = "absent"
            /\ UNCHANGED <<temp_exists, temp_results>>
    /\ pending' = IF legacy = "file_locked" THEN "unlink" ELSE pending
    /\ pc' = "done"
    /\ UNCHANGED <<mode, workers, feature_name, auto_generate, fs, feature_files, index,
                   unit, result_dirs, yielded, allure_exists, allure, converted, report,
                   exit_code, report_history, results_history, earlier>>
    /\ UNCHANGED <<aux, ext>>

LegacyStates == {"absent", "dir", "file", "file_locked"}

\* ----------------------------------------------------------- specification
Next ==
    \/ Discover
    \/ \E failed \in {"none", "merged", "temp"} : CleanupOldResults(failed)
    \/ RunSequentialEnter
    \/ SeqCall
    \/ \E o \in Outcomes : SeqFinish(o)
    \/ SeqReturn
    \/ RunParallelEnter
    \/ Submit
    \/ SubmitDone
    \/ \E i \in Units : WorkerStart(i)
    \/ \E i \in Units, o \in Outcomes : WorkerFinish(i, o)
    \/ \E i \in Units : AsCompleted(i)
    \/ ParallelReturn
    \/ ProcessResults
    \/ ConvertResults
    \/ \E cli \in BOOLEAN : GenerateCheck(cli)
    \/ PreserveHistory
    \/ \E ok \in BOOLEAN : GenerateReport(ok)
    \/ \E removed \in BOOLEAN, legacy \in LegacyStates : CleanupTempFiles(removed, legacy)

Spec == Init /\ [][Next]_vars


\* ------------------------------------------------------------------ claims
\* The scheduler (run_sequential or run_parallel) has returned its list.
SchedulerReturned ==
    \/ pc \in {"process", "convert", "generate", "preserve", "allure_generate"}
    \/ pc \in {"finally", "done"} /\ pending = "none" /\ N > 0

\* The scheduler raised instead of returning: run_feature raised in sequential
\* mode, or the pool was asked for no worker.
SchedulerRaised ==
    \/ mode # "parallel" /\ \E i \in Units : unit[i].st = "raised"
    \/ mode = "parallel" /\ workers <= 0

\* C1: whenever run_parallel has returned, its list holds exactly N
\* directories, one per unit, and result_1..result_N exist.
C1_ParallelReturnsOneDirPerUnit ==
    (mode = "parallel" /\ pc = "process")
        => /\ Len(result_dirs) = N
           /\ Range(result_dirs) = 1..N
           /\ DOMAIN temp_results = 1..N

C3_ParallelIsolatesRaisingUnit ==
    (mode = "parallel" /\ \E i \in Units : unit[i].st = "raised")
        => /\ pending # "exception"
           /\ pc \notin {"submit", "await"} => Finished = Units

C3_Witness ==
    /\ mode = "parallel"
    /\ pc = "process"
    /\ \E i, j \in Units : unit[i].st = "raised" /\ unit[j].st = "returned" /\ i < j

\* C4: while results are collected, converted or merged, and whenever a
\* converted record exists, no submitted unit is queued or running.
C4_ConversionAfterAllUnits ==
    (pc \in {"process", "convert", "generate", "preserve", "allure_generate"} \/ allure_exists \/ allure # {})
        => Running = {} /\ Queued = {}

C4_Witness ==
    /\ mode = "parallel"
    /\ pc = "convert"
    /\ N >= 2
    /\ Finished = Units

\* C5: every unit that has been handed to the scheduler has a directory of its
\* own, which exists from before its submission until the final cleanup; no
\* two units share a directory.
C5_ExclusiveOutputDirs ==
    /\ \A i, j \in Units :
          (i # j /\ unit[i].st # "new" /\ unit[j].st # "new") => unit[i].dir # unit[j].dir
    /\ \A i \in Units :
          (unit[i].st # "new" /\ pc \notin {"finally", "done"})
              => unit[i].dir \in DOMAIN temp_results

C5_Witness ==
    /\ Cardinality(Running) >= 2
    /\ \A i, j \in Running : i # j => unit[i].dir # unit[j].dir

\* C6: in sequential and in parallel mode, under every interleaving, the unit
\* at position i (from 1) is given result_i.
C6_PositionDeterminesDir ==
    \A i \in Units : unit[i].st # "new" => unit[i].dir = i

C6_Witness ==
    /\ mode = "parallel"
    /\ Len(result_dirs) = 2
    /\ result_dirs[1] = 2 /\ result_dirs[2] = 1
    /\ unit[1].dir = 1 /\ unit[2].dir = 2

C8_ExitCodeIffConverted ==
    (pc = "done" /\ pending = "none")
        => /\ exit_code \in {0, 1}
           /\ exit_code = 0 <=> converted > 0
           /\ N > 0 => converted = Cardinality(allure)
           /\ N = 0 => exit_code = 1

C8_Witness ==
    /\ pc = "done"
    /\ pending = "none"
    /\ N > 0
    /\ allure_exists
    /\ exit_code = 1

\* C9: an exception leaves execute only when an invocation itself raised in
\* sequential mode, the pool could not be built, a directory of an earlier
\* run could not be removed or the legacy file could not be unlinked, never
\* because of an exit code, a malformed file or the report generator; and the
\* exit code is 0
\* exactly when a returned directory holds a result file and some result file
\* holds a scenario, whatever the units' exit codes, the malformed files beside
\* it and the outcome of report generation.
C9_FailuresDoNotChangeExit ==
    /\ pending \notin {"none", "unlink", "rmtree"} => SchedulerRaised
    /\ (pc = "finally" /\ pending = "none")
          => /\ \A i \in Units : unit[i].calls = 1
             /\ exit_code = 0 <=>
                  /\ \E d \in Range(result_dirs) : temp_results[d] # NoFile
                  /\ \E d \in DOMAIN temp_results :
                        temp_results[d].state = "ok" /\ temp_results[d].scenarios > 0

C9_Witness ==
    /\ pc = "finally"
    /\ pending = "none"
    /\ exit_code = 0
    /\ \E i \in Units : unit[i].st = "returned" /\ unit[i].rc = 1
    /\ \E d \in DOMAIN temp_results : temp_results[d].state = "malformed"
    /\ report \in {"no_cli", "failed"}

\* C10: when the base directory is missing, the named file is missing or the
\* folder holds no feature file, discovery yields the empty list, and execute
\* then returns 1 with no unit invoked and nothing created.
DiscoveryFindsNothing ==
    \/ BaseDir \notin fs.dirs
    \/ /\ feature_name # None
       /\ endswith_feature(feature_name)
       /\ BaseDir \o feature_name.parts \notin fs.files \cup fs.dirs
       /\ GivenPath(feature_name) \notin fs.files
    \/ /\ ~(feature_name # None /\ endswith_feature(feature_name))
       /\ ~\E p \in fs.files \cup fs.dirs :
              /\ SubSeq(p, 1, Len(p) - 1) = JoinBase(feature_name)
              /\ Last(p) \in Range(FeatureNames)

C10_NoUnitsExitOne ==
    pc # "discover"
        => /\ DiscoveryFindsNothing => N = 0
           /\ N = 0 => /\ pc = "done"
                       /\ exit_code = 1
                       /\ pending = "none"
                       /\ unit = <<>>
                       /\ temp_exists = earlier.temp
                       /\ DOMAIN temp_results \subseteq {StaleDir}

C10_Witness ==
    /\ pc = "done"
    /\ N = 0
    /\ exit_code = 1
    /\ BaseDir \in fs.dirs
    /\ feature_name # None /\ endswith_feature(feature_name)


\* C11: once the try block of execute is entered, every exit path of execute
\* has attempted the removal of ./temp_results, and the cleanup raised nothing.
C11_CleanupOnEveryExitPath ==
    (pc = "done" /\ N > 0) => cleanup # "none" /\ pending # "unlink"

\* C20: whenever `allure generate` is about to be invoked, a history folder of
\* the previous report is present in the results directory it reads.
C20_HistoryCopiedBeforeGenerate ==
    pc = "allure_generate" => (report_history => results_history)

C20_Witness ==
    /\ pc = "allure_generate"
    /\ report_history
    /\ results_history

\* ---------------------------------------------- _get_feature_files, twice
\* execute is not running: only fs and feature_name, which discovery reads,
\* are left open.
RunnerOff ==
    /\ mode = "single"
    /\ workers = 1
    /\ auto_generate = FALSE
    /\ pc = "off"
    /\ feature_files = <<>>
    /\ index = 0
    /\ unit = <<>>
    /\ temp_exists = FALSE
    /\ temp_results = <<>>
    /\ result_dirs = <<>>
    /\ yielded = {}
    /\ allure_exists = FALSE
    /\ allure = {}
    /\ converted = 0
    /\ report = "none"
    /\ exit_code = -1
    /\ pending = "none"
    /\ cleanup = "none"
    /\ report_history = FALSE
    /\ results_history = FALSE
    /\ earlier = NothingLeft

\* a.feature one level above the base directory
UpFile == BaseDir \o <<"..", "a.feature">>

\* The trees of FsCases, and two that also hold UpFile.
DiscFsCases ==
    FsCases
    \cup {[f EXCEPT !.files = @ \cup {UpFile}] : f \in {MkFs(TRUE, k, 0, FALSE) : k \in 0..1}}

DiscSelectors == Selectors \cup {[lead |-> "../", parts |-> <<"a.feature">>]}

\* Orders in which a directory can hand out its entries: scan[r] is the
\* position of the name of rank r.
ScanOrders ==
    {o \in [1..MaxUnits -> 1..MaxUnits] : \A a, b \in 1..MaxUnits : a # b => o[a] # o[b]}

InitDisc ==
    /\ RunnerOff
    /\ SettingsIdle /\ LogIdle /\ DriverIdle
    /\ fs \in DiscFsCases
    /\ feature_name \in DiscSelectors
    /\ phase = "call1"
    /\ scan \in ScanOrders
    /\ found = <<>>
    /\ found_again = <<>>
    /\ element = <<>>
    /\ scenario = <<>>
    /\ batch = <<>>
    /\ visited = {}
    /\ converted_count = 0
    /\ written = {}
    /\ warned = {}

FirstCall ==
    /\ phase = "call1"
    /\ found' = _get_feature_files(fs, feature_name)
    /\ phase' = "between"
    /\ UNCHANGED <<scan, found_again, element, scenario, batch, visited,
                   converted_count, written, warned>>
    /\ UNCHANGED <<rvars, ext>>

\* Between the calls the directory is unchanged, but the order in which the
\* operating system lists it is not promised to be.
Rescan(o) ==
    /\ phase = "between"
    /\ scan' = o
    /\ phase' = "call2"
    /\ UNCHANGED <<found, found_again, element, scenario, batch, visited,
                   converted_count, written, warned>>
    /\ UNCHANGED <<rvars, ext>>

SecondCall ==
    /\ phase = "call2"
    /\ found_again' = _get_feature_files(fs, feature_name)
    /\ phase' = "compared"
    /\ UNCHANGED <<scan, found, element, scenario, batch, visited,
                   converted_count, written, warned>>
    /\ UNCHANGED <<rvars, ext>>

NextDisc ==
    \/ FirstCall
    \/ \E o \in ScanOrders : Rescan(o)
    \/ SecondCall

SpecDisc == InitDisc /\ [][NextDisc]_vars

\* p lies under dir, at any depth
Under(p, dir) ==
    /\ Len(p) > Len(dir)
    /\ SubSeq(p, 1, Len(dir)) = dir
    /\ ".." \notin Range(p)

\* C17: with no selector, every feature file located under the base directory
\* is in the list discovery returns.
C17_NoSelectorReturnsAllUnderBase ==
    (phase # "call1" /\ feature_name = None)
        => \A p \in fs.files : Under(p, BaseDir) => p \in Range(found)

\* C18: a selector ending in .feature resolves to the file at that path
\* relative to the base directory when it exists there, otherwise to the
\* selector taken as the given path, and to that one file only (to nothing
\* when neither exists).
C18_FeatureSelectorResolvesToOneFile ==
    (phase # "call1" /\ exists(fs, BaseDir)
        /\ feature_name # None /\ endswith_feature(feature_name))
        => LET rel   == JoinBase(feature_name)
               given == GivenPath(feature_name)
           IN found = IF is_file(fs, rel) THEN <<rel>>
                      ELSE IF is_file(fs, given) THEN <<given>>
                      ELSE <<>>

\* C19: two calls of discovery on an unchanged directory with the same
\* selector return the same list, and the list is in lexicographic order.
C19_DiscoveryDeterministic ==
    phase = "compared"
        => /\ found_again = found
           /\ \A i, j \in DOMAIN found :
                 i < j => NameRank(Last(found[i])) < NameRank(Last(found[j]))

C19_Witness ==
    /\ phase = "compared"
    /\ Len(found_again) >= 2
    /\ scan[1] > scan[2]

\* ------------------------------------------------ AllureConverter, one element
\* A raw Behave step is [status, duration, error_message]: result.status (or
\* Missing), result.duration in ticks of 1/TicksPerSecond s (or NoDuration for
\* an absent or null value), and result.error_message.  A raw element is
\* [status, steps].  Names, labels and the uuid pass through the converter
\* untouched and are left out; so is the statusDetails block of a step.
Missing == "<missing>"

RawStatuses == {"passed", "failed", "error", "skipped", "undefined", "untested", Missing}

ElementStatuses == {Missing, "passed", "failed", "error"}

NoDuration == -1

TicksPerSecond == 10000

\* 0.5 ms and 1.5 ms
Durations == {NoDuration, 5, 15}

Messages == {"", "m1", "m2"}

\* The steps tried: error_message is read for failed and error steps only.
RawSteps ==
    {[status |-> st, duration |-> d, error_message |-> m] :
        st \in {"failed", "error"}, d \in Durations, m \in Messages}
    \cup {[status |-> st, duration |-> d, error_message |-> ""] :
            st \in RawStatuses \ {"failed", "error"}, d \in Durations}

StepLists == UNION {[1..n -> RawSteps] : n \in 0..MaxSteps}

Elements == {[status |-> es, steps |-> sl] : es \in ElementStatuses, sl \in StepLists}

\* Mutant of _normalize_status: 'undefined' is not in the table.
_normalize_status_UndefinedPasses(status) ==
    IF status = "failed" THEN "failed"
    ELSE IF status = "error" THEN "broken"
    ELSE IF status = "skipped" THEN "skipped"
    ELSE "passed"

\* AllureConverter._normalize_status
_normalize_status(status) ==
    IF status = "failed" THEN "failed"
    ELSE IF status = "error" THEN "broken"
    ELSE IF status \in {"skipped", "undefined"} THEN "skipped"
    ELSE "passed"

\* error_info of a step that carries none
NoError == [present |-> FALSE, message |-> "", trace |-> ""]

\* AllureConverter._build_allure_step: (step_data, error_info)
_build_allure_step(step) ==
    LET raw_status == IF step.status = Missing THEN "passed" ELSE step.status
        step_status == _normalize_status(raw_status)
        seconds == IF step.duration = NoDuration THEN 0 ELSE step.duration
        step_duration == (seconds * 1000) \div TicksPerSecond
    IN [step_data  |-> [status |-> step_status, start |-> 0, stop |-> step_duration],
        error_info |-> IF raw_status \in {"failed", "error"}
                       THEN [present |-> TRUE, message |-> step.error_message,
                             trace |-> step.error_message]
                       ELSE NoError]

\* error_message = None
NoMessage == "<none>"

\* The locals of _build_allure_scenario before its loop (lines 202-206).
LoopStart ==
    [steps |-> <<>>, total_duration |-> 0, scenario_status |-> "passed",
     error_message |-> NoMessage, error_trace |-> NoMessage]

\* Mutant of ScenarioStep: total_duration is assigned, not accumulated.
ScenarioStep_NoSum(acc, step) ==
    LET r == _build_allure_step(step)
        bad == r.step_data.status \in {"failed", "broken"}
    IN [steps           |-> Append(acc.steps, r.step_data),
        total_duration  |-> r.step_data.stop,
        scenario_status |-> IF bad THEN r.step_data.status ELSE acc.scenario_status,
        error_message   |-> IF bad /\ r.error_info.present
                            THEN r.error_info.message ELSE acc.error_message,
        error_trace     |-> IF bad /\ r.error_info.present
                            THEN r.error_info.trace ELSE acc.error_trace]

\* Mutant of ScenarioStep: a skipped step sets the scenario status too.
ScenarioStep_SkippedCounts(acc, step) ==
    LET r == _build_allure_step(step)
        bad == r.step_data.status \in {"failed", "broken"}
    IN [steps           |-> Append(acc.steps, r.step_data),
        total_duration  |-> acc.total_duration + r.step_data.stop,
        scenario_status |-> IF r.step_data.status \in {"failed", "broken", "skipped"}
                            THEN r.step_data.status ELSE acc.scenario_status,
        error_message   |-> IF bad /\ r.error_info.present
                            THEN r.error_info.message ELSE acc.error_message,
        error_trace     |-> IF bad /\ r.error_info.present
                            THEN r.error_info.trace ELSE acc.error_trace]

\* One pass of the loop of _build_allure_scenario (lines 208-218).
ScenarioStep(acc, step) ==
    LET r == _build_allure_step(step)
        bad == r.step_data.status \in {"failed", "broken"}
    IN [steps           |-> Append(acc.steps, r.step_data),
        total_duration  |-> acc.total_duration + r.step_data.stop,
        scenario_status |-> IF bad THEN r.step_data.status ELSE acc.scenario_status,
        error_message   |-> IF bad /\ r.error_info.present
                            THEN r.error_info.message ELSE acc.error_message,
        error_trace     |-> IF bad /\ r.error_info.present
                            THEN r.error_info.trace ELSE acc.error_trace]

RECURSIVE ScenarioLoop(_, _)
ScenarioLoop(acc, steps) ==
    IF steps = <<>> THEN acc
    ELSE ScenarioLoop(ScenarioStep(acc, Head(steps)), Tail(steps))

\* Mutant of _build_allure_scenario: the element status is not consulted.
_build_allure_scenario_NoOverride(el) ==
    LET acc == ScenarioLoop(LoopStart, el.steps)
    IN [status   |-> acc.scenario_status,
        start    |-> 0,
        stop     |-> acc.total_duration,
        duration |-> acc.total_duration,
        steps    |-> acc.steps,
        message  |-> acc.error_message,
        trace    |-> acc.error_trace]

\* AllureConverter._build_allure_scenario
_build_allure_scenario(el) ==
    LET acc == ScenarioLoop(LoopStart, el.steps)
        element_status == IF el.status = Missing THEN "" ELSE el.status
        scenario_status ==
            IF element_status \in {"failed", "error"}
            THEN (IF element_status = "failed" THEN "failed" ELSE "broken")
            ELSE acc.scenario_status
    IN [status   |-> scenario_status,
        start    |-> 0,
        stop     |-> acc.total_duration,
        duration |-> acc.total_duration,
        steps    |-> acc.steps,
        message  |-> acc.error_message,
        trace    |-> acc.error_trace]

InitConv ==
    /\ RunnerOff
    /\ SettingsIdle /\ LogIdle /\ DriverIdle
    /\ fs = MkFs(FALSE, 0, 0, FALSE)
    /\ feature_name = None
    /\ phase = "element"
    /\ element \in Elements
    /\ scenario = <<>>
    /\ scan = <<>>
    /\ found = <<>>
    /\ found_again = <<>>
    /\ batch = <<>>
    /\ visited = {}
    /\ converted_count = 0
    /\ written = {}
    /\ warned = {}

BuildScenario ==
    /\ phase = "element"
    /\ scenario' = _build_allure_scenario(element)
    /\ phase' = "built"
    /\ UNCHANGED <<scan, found, found_again, element, batch, visited,
                   converted_count, written, warned>>
    /\ UNCHANGED <<rvars, ext>>

NextConv == BuildScenario

SpecConv == InitConv /\ [][NextConv]_vars

RECURSIVE SumStops(_)
SumStops(steps) == IF steps = <<>> THEN 0 ELSE Head(steps).stop + SumStops(Tail(steps))

\* C13: the duration of a normalized scenario equals its stop and equals the
\* sum of the stop values of its steps (0 without steps).
C13_DurationIsSumOfStepStops ==
    phase = "built"
        => /\ scenario.duration = scenario.stop
           /\ scenario.duration = SumStops(scenario.steps)
           /\ element.steps = <<>> => scenario.duration = 0

C13_Witness ==
    /\ phase = "built"
    /\ Len(scenario.steps) >= 2
    /\ \A i \in DOMAIN scenario.steps : scenario.steps[i].stop > 0
    /\ scenario.duration >= 2

\* The raw status of step i of the element normalizes to failed or broken.
Failing(i) ==
    LET st == element.steps[i].status
    IN st \in {"failed", "error"}

\* C14: without a failing step and without an element status of failed or
\* error the scenario is passed, whatever mix of passed, skipped and undefined
\* steps it has; and steps that follow the last failing step (skipped ones
\* included) leave the scenario failed or broken as that step made it.
C14_SkippedNeverFailsNorDowngrades ==
    (phase = "built" /\ element.status \notin {"failed", "error"})
        => /\ (\A i \in DOMAIN element.steps : ~Failing(i)) => scenario.status = "passed"
           /\ \A i \in DOMAIN element.steps :
                 (Failing(i) /\ \A j \in DOMAIN element.steps : j > i => ~Failing(j))
                    => scenario.status
                         = (IF element.steps[i].status = "failed" THEN "failed" ELSE "broken")

C14_Witness ==
    /\ phase = "built"
    /\ element.status = Missing
    /\ Len(element.steps) >= 2
    /\ element.steps[1].status = "error"
    /\ element.steps[2].status = "skipped"
    /\ scenario.status = "broken"

Perms(n) == {f \in [1..n -> 1..n] : \A a, b \in 1..n : a # b => f[a] # f[b]}

Permuted(el, f) == [el EXCEPT !.steps = [i \in 1..Len(el.steps) |-> el.steps[f[i]]]]

\* C15: without an element status of failed or error, every permutation of the
\* steps of an element yields the same scenario status.
C15_StatusIndependentOfStepOrder ==
    (phase = "built" /\ element.status \notin {"failed", "error"})
        => \A f \in Perms(Len(element.steps)) :
              _build_allure_scenario(Permuted(element, f)).status = scenario.status

Vocabulary == {"passed", "failed", "broken", "skipped"}

\* C16: scenario and step statuses are among passed, failed, broken, skipped,
\* and step i has the status the table gives for the raw status of step i:
\* failed to failed, error to broken, skipped and undefined to skipped, any
\* other or missing status to passed.
C16_StatusVocabularyAndTable ==
    phase = "built"
        => /\ scenario.status \in Vocabulary
           /\ Len(scenario.steps) = Len(element.steps)
           /\ \A i \in DOMAIN scenario.steps :
                 /\ scenario.steps[i].status \in Vocabulary
                 /\ scenario.steps[i].status =
                       CASE element.steps[i].status = "failed" -> "failed"
                         [] element.steps[i].status = "error" -> "broken"
                         [] element.steps[i].status = "skipped" -> "skipped"
                         [] element.steps[i].status = "undefined" -> "skipped"
                         [] OTHER -> "passed"

C16_Witness ==
    /\ phase = "built"
    /\ Len(element.steps) >= 2
    /\ element.steps[1].status = "undefined"
    /\ element.steps[2].status \in {Missing, "untested"}
    /\ scenario.steps[1].status = "skipped"
    /\ scenario.steps[2].status = "passed"

\* ------------------------------------ AllureConverter.convert_results, a batch
\* A *.json file is [json, features]: text that does not parse ("invalid"), a
\* JSON value that is not a list ("object"), or a list of features.  A feature
\* is [record, elements]: record is FALSE for a list entry that is not an
\* object, on which feature.get raises.
ScenarioElement == [type |-> "scenario", status |-> Missing, steps |-> <<>>]

BackgroundElement == [type |-> "background", status |-> Missing, steps |-> <<>>]

BadFeature == [record |-> FALSE, elements |-> <<>>]

\* A feature with a background and k scenarios
GoodFeature(k) ==
    [record |-> TRUE, elements |-> <<BackgroundElement>> \o [j \in 1..k |-> ScenarioElement]]

FileShapes ==
    {[json |-> "invalid", features |-> <<>>],
     [json |-> "object", features |-> <<>>],
     [json |-> "list", features |-> <<>>]}
    \cup {[json |-> "list", features |-> <<GoodFeature(k)>>] : k \in 0..MaxScenarios}
    \cup {[json |-> "list", features |-> <<GoodFeature(k), BadFeature>>] : k \in 1..MaxScenarios}
    \cup {[json |-> "list", features |-> <<GoodFeature(1), GoodFeature(k)>>] : k \in 1..MaxScenarios}

Batches == UNION {[1..n -> FileShapes] : n \in 0..MaxFiles}

\* The scenarios of the elements of one feature, backgrounds skipped
\* (lines 189-194).
RECURSIVE ElementScenarios(_)
ElementScenarios(elements) ==
    IF elements = <<>> THEN <<>>
    ELSE IF Head(elements).type = "background" THEN ElementScenarios(Tail(elements))
    ELSE <<_build_allure_scenario(Head(elements))>> \o ElementScenarios(Tail(elements))

RECURSIVE FeatureScenarios(_)
FeatureScenarios(features) ==
    IF features = <<>> THEN <<>>
    ELSE ElementScenarios(Head(features).elements) \o FeatureScenarios(Tail(features))

\* AllureConverter._process_json_file: it raises, or returns a list
_process_json_file(file) ==
    IF file.json = "invalid" THEN [raised |-> TRUE, scenarios |-> <<>>]
    ELSE IF file.json # "list" THEN [raised |-> FALSE, scenarios |-> <<>>]
    ELSE IF \E i \in DOMAIN file.features : ~file.features[i].record
    THEN [raised |-> TRUE, scenarios |-> <<>>]
    ELSE [raised |-> FALSE, scenarios |-> FeatureScenarios(file.features)]

InitBatch ==
    /\ RunnerOff
    /\ SettingsIdle /\ LogIdle /\ DriverIdle
    /\ fs = MkFs(FALSE, 0, 0, FALSE)
    /\ feature_name = None
    /\ phase = "loop"
    /\ batch \in Batches
    /\ visited = {}
    /\ converted_count = 0
    /\ written = {}
    /\ warned = {}
    /\ scan = <<>>
    /\ found = <<>>
    /\ found_again = <<>>
    /\ element = <<>>
    /\ scenario = <<>>

\* Mutant of ConvertFile: no try/except around the body of the loop.
ConvertFile_NoCatch(k) ==
    /\ phase = "loop"
    /\ k \in DOMAIN batch \ visited
    /\ visited' = visited \cup {k}
    /\ LET r == _process_json_file(batch[k])
       IN IF r.raised
          THEN /\ phase' = "aborted"
               /\ UNCHANGED <<written, converted_count, warned>>
          ELSE /\ written' = written \cup {<<k, j>> : j \in DOMAIN r.scenarios}
               /\ converted_count' = converted_count + Len(r.scenarios)
               /\ UNCHANGED <<warned, phase>>
    /\ UNCHANGED <<scan, found, found_again, element, scenario, batch>>
    /\ UNCHANGED <<rvars, ext>>

\* One pass of the loop of convert_results (lines 162-170) over the file the
\* glob yields next, whichever it is.
ConvertFile(k) ==
    /\ phase = "loop"
    /\ k \in DOMAIN batch \ visited
    /\ visited' = visited \cup {k}
    /\ LET r == _process_json_file(batch[k])
       IN IF r.raised
          THEN /\ warned' = warned \cup {k}
               /\ UNCHANGED <<written, converted_count>>
          ELSE /\ written' = written \cup {<<k, j>> : j \in DOMAIN r.scenarios}
               /\ converted_count' = converted_count + Len(r.scenarios)
               /\ UNCHANGED warned
    /\ UNCHANGED <<phase, scan, found, found_again, element, scenario, batch>>
    /\ UNCHANGED <<rvars, ext>>

\* line 172
ConvertReturn ==
    /\ phase = "loop"
    /\ visited = DOMAIN batch
    /\ phase' = "returned"
    /\ UNCHANGED <<scan, found, found_again, element, scenario, batch, visited,
                   converted_count, written, warned>>
    /\ UNCHANGED <<rvars, ext>>

NextBatch ==
    \/ \E k \in 1..MaxFiles : ConvertFile(k)
    \/ ConvertReturn

SpecBatch == InitBatch /\ [][NextBatch]_vars

\* A file that parses as a list of feature records
WellFormed(file) ==
    file.json = "list" /\ \A i \in DOMAIN file.features : file.features[i].record

\* Its elements that are not backgrounds
RECURSIVE ScenarioCount(_)
ScenarioCount(features) ==
    IF features = <<>> THEN 0
    ELSE Cardinality({j \in DOMAIN Head(features).elements :
                        Head(features).elements[j].type # "background"})
         + ScenarioCount(Tail(features))

RECURSIVE SumOver(_, _)
SumOver(f, S) ==
    IF S = {} THEN 0
    ELSE LET k == CHOOSE k \in S : TRUE IN f[k] + SumOver(f, S \ {k})

\* What the batch owes: per file, the number of its scenarios when it is well
\* formed, else 0.
Owed == [k \in DOMAIN batch |-> IF WellFormed(batch[k]) THEN ScenarioCount(batch[k].features) ELSE 0]

StepDerived ==
    IF \E i \in DOMAIN element.steps : Failing(i)
    THEN LET i == CHOOSE i \in DOMAIN element.steps :
                     Failing(i) /\ \A j \in DOMAIN element.steps : j > i => ~Failing(j)
         IN IF element.steps[i].status = "failed" THEN "failed" ELSE "broken"
    ELSE "passed"

\* C21: an element status of failed makes the scenario failed and one of error
\* makes it broken, whatever the steps; any other element status, or none,
\* leaves the scenario with the status its steps give.
C21_ElementStatusTakesPrecedence ==
    phase = "built"
        => /\ element.status = "failed" => scenario.status = "failed"
           /\ element.status = "error" => scenario.status = "broken"
           /\ element.status \notin {"failed", "error"} => scenario.status = StepDerived

C21_Witness ==
    /\ phase = "built"
    /\ element.status = "error"
    /\ Len(element.steps) >= 1
    /\ \A i \in DOMAIN element.steps : element.steps[i].status = "passed"
    /\ scenario.status = "broken"

\* C22: when the first failed or broken step of a scenario carries an error
\* message, the message and the trace of the scenario are that step's, whatever
\* steps follow.
C22_ErrorFromFirstFailingStep ==
    (phase = "built" /\ \E i \in DOMAIN element.steps : Failing(i))
        => LET first == CHOOSE i \in DOMAIN element.steps :
                           Failing(i) /\ \A j \in DOMAIN element.steps : j < i => ~Failing(j)
           IN element.steps[first].error_message # ""
                 => /\ scenario.message = element.steps[first].error_message
                    /\ scenario.trace = element.steps[first].error_message

\* ------------------------------------------------------ utils.load_settings
\* What a call handed back: nothing yet, the {} of line 19, an exception out of
\* json.load, or (a positive number) the dict object a load created.
NoReturn == 0

EmptyDict == -1

Raised == -2

Threads == 1..MaxThreads

InitSettings ==
    /\ RunnerOff
    /\ fs = MkFs(FALSE, 0, 0, FALSE)
    /\ feature_name = None
    /\ AuxIdle
    /\ LogIdle /\ DriverIdle
    /\ _settings_cache = 0
    /\ _settings_lock = 0
    /\ config \in {"missing", "json", "garbage"}
    /\ reads = 0
    /\ caller = [t \in Threads |->
                    [pc |-> "idle", calls |-> 0, hit |-> FALSE, read |-> FALSE,
                     ret |-> NoReturn]]

\* line 14: the unlocked test of _settings_cache
Call(t) ==
    /\ caller[t].pc = "idle"
    /\ caller[t].calls < MaxCalls
    /\ caller' = [caller EXCEPT ![t] =
                    [pc    |-> IF _settings_cache = 0 THEN "acquire" ELSE "return",
                     calls |-> @.calls + 1,
                     hit   |-> _settings_cache # 0,
                     read  |-> FALSE,
                     ret   |-> NoReturn]]
    /\ UNCHANGED <<_settings_cache, _settings_lock, config, reads>>
    /\ UNCHANGED <<rvars, aux, lvars, dvars>>

\* line 15: with _settings_lock
Acquire(t) ==
    /\ caller[t].pc = "acquire"
    /\ _settings_lock = 0
    /\ _settings_lock' = t
    /\ caller' = [caller EXCEPT ![t].pc = "check"]
    /\ UNCHANGED <<_settings_cache, config, reads>>
    /\ UNCHANGED <<rvars, aux, lvars, dvars>>

\* Mutant of CheckUnderLock: the cache is not tested again under the lock.
CheckUnderLock_NoRecheck(t) ==
    /\ caller[t].pc = "check"
    /\ caller' = [caller EXCEPT ![t].pc = "load"]
    /\ UNCHANGED <<_settings_cache, _settings_lock, config, reads>>
    /\ UNCHANGED <<rvars, aux, lvars, dvars>>

\* line 16: the test of _settings_cache under the lock; when it fails the with
\* block is left
CheckUnderLock(t) ==
    /\ caller[t].pc = "check"
    /\ IF _settings_cache = 0
       THEN /\ caller' = [caller EXCEPT ![t].pc = "load"]
            /\ UNCHANGED _settings_lock
       ELSE /\ caller' = [caller EXCEPT ![t].pc = "return"]
            /\ _settings_lock' = 0
    /\ UNCHANGED <<_settings_cache, config, reads>>
    /\ UNCHANGED <<rvars, aux, lvars, dvars>>

\* lines 17-21.  A missing file returns {} from inside the with block; a file
\* json.load rejects raises out of it; else the dict read is stored in
\* _settings_cache.  Each way leaves the with block and frees the lock.
Load(t) ==
    /\ caller[t].pc = "load"
    /\ _settings_lock' = 0
    /\ IF config = "missing"
       THEN /\ caller' = [caller EXCEPT ![t].pc = "idle", ![t].ret = EmptyDict]
            /\ UNCHANGED <<_settings_cache, reads>>
       ELSE IF config = "garbage"
       THEN /\ caller' = [caller EXCEPT ![t].pc = "idle", ![t].ret = Raised,
                                         ![t].read = TRUE]
            /\ reads' = reads + 1
            /\ UNCHANGED _settings_cache
       ELSE /\ caller' = [caller EXCEPT ![t].pc = "return", ![t].read = TRUE]
            /\ reads' = reads + 1
            /\ _settings_cache' = reads + 1
    /\ UNCHANGED config
    /\ UNCHANGED <<rvars, aux, lvars, dvars>>

\* line 22
Return(t) ==
    /\ caller[t].pc = "return"
    /\ caller' = [caller EXCEPT ![t].pc = "idle", ![t].ret = _settings_cache]
    /\ UNCHANGED <<_settings_cache, _settings_lock, config, reads>>
    /\ UNCHANGED <<rvars, aux, lvars, dvars>>

NextSettings ==
    \E t \in Threads :
        \/ Call(t)
        \/ Acquire(t)
        \/ CheckUnderLock(t)
        \/ Load(t)
        \/ Return(t)

SpecSettings == InitSettings /\ [][NextSettings]_vars

DRIVER_CREATION_RETRIES == 3

\* What one pass of the loop of create_driver can do: the factory raises, the
\* factory returns a driver whose current_url raises, or both succeed.
AttemptOutcomes == {"create_failed", "probe_failed", "ok"}

\* No hook is in progress.
Between == {"idle", "returned", "raised"}

InitDriver ==
    /\ RunnerOff
    /\ fs = MkFs(FALSE, 0, 0, FALSE)
    /\ feature_name = None
    /\ AuxIdle
    /\ SettingsIdle /\ LogIdle
    /\ context_driver = 0
    /\ created = 0
    /\ quit_called = {}
    /\ closed = {}
    /\ tries = <<>>
    /\ hook = "idle"
    /\ hooks_run = 0

\* environment.before_scenario calls create_driver (lines 67-68: the loop starts)
BeforeScenario ==
    /\ hook \in Between
    /\ hooks_run < MaxHooks
    /\ hooks_run' = hooks_run + 1
    /\ tries' = <<>>
    /\ hook' = "creating"
    /\ UNCHANGED <<context_driver, created, quit_called, closed>>
    /\ UNCHANGED <<rvars, aux, svars, lvars>>

\* Mutant of Attempt: a successful attempt does not leave the loop.
Attempt_NoReturn(outcome) ==
    /\ hook = "creating"
    /\ Len(tries) < DRIVER_CREATION_RETRIES
    /\ tries' = Append(tries, outcome)
    /\ IF outcome = "create_failed"
       THEN UNCHANGED <<context_driver, created>>
       ELSE /\ created' = created + 1
            /\ context_driver' = created + 1
    /\ UNCHANGED <<hook, quit_called, closed, hooks_run>>
    /\ UNCHANGED <<rvars, aux, svars, lvars>>

\* One pass of the loop of create_driver (lines 68-76).  A driver the factory
\* returns is stored in context.driver before it is probed; a failure of
\* either call is logged and the loop goes on; success returns.
Attempt(outcome) ==
    /\ hook = "creating"
    /\ Len(tries) < DRIVER_CREATION_RETRIES
    /\ tries' = Append(tries, outcome)
    /\ IF outcome = "create_failed"
       THEN UNCHANGED <<context_driver, created>>
       ELSE /\ created' = created + 1
            /\ context_driver' = created + 1
    /\ hook' = IF outcome = "ok" THEN "returned" ELSE hook
    /\ UNCHANGED <<quit_called, closed, hooks_run>>
    /\ UNCHANGED <<rvars, aux, svars, lvars>>

\* line 77: the loop is exhausted, RuntimeError leaves create_driver and
\* before_scenario
GiveUp ==
    /\ hook = "creating"
    /\ Len(tries) = DRIVER_CREATION_RETRIES
    /\ hook' = "raised"
    /\ UNCHANGED <<context_driver, created, quit_called, closed, tries, hooks_run>>
    /\ UNCHANGED <<rvars, aux, svars, lvars>>

\* environment.after_scenario calls close_driver (lines 80-94).  quit() is the
\* third call of the try block: it is reached when delete_all_cookies and
\* clear_cache both returned.  Whatever is raised is logged, and the finally
\* block clears context.driver.
AfterScenario(cookies_ok, cache_ok) ==
    /\ hook \in Between
    /\ hooks_run < MaxHooks
    /\ hooks_run' = hooks_run + 1
    /\ IF context_driver = 0
       THEN UNCHANGED <<context_driver, closed, quit_called>>
       ELSE /\ closed' = closed \cup {context_driver}
            /\ quit_called' = IF cookies_ok /\ cache_ok
                              THEN quit_called \cup {context_driver}
                              ELSE quit_called
            /\ context_driver' = 0
    /\ UNCHANGED <<created, tries, hook>>
    /\ UNCHANGED <<rvars, aux, svars, lvars>>

\* environment.after_feature calls close_driver_if_continuing (lines 96-109):
\* three CDP commands, none of them quit(), then context.driver = None
AfterFeature ==
    /\ hook \in Between
    /\ hooks_run < MaxHooks
    /\ hooks_run' = hooks_run + 1
    /\ context_driver' = 0
    /\ UNCHANGED <<created, quit_called, closed, tries, hook>>
    /\ UNCHANGED <<rvars, aux, svars, lvars>>

NextDriver ==
    \/ BeforeScenario
    \/ \E outcome \in AttemptOutcomes : Attempt(outcome)
    \/ GiveUp
    \/ \E cookies_ok \in BOOLEAN, cache_ok \in BOOLEAN : AfterScenario(cookies_ok, cache_ok)
    \/ AfterFeature

SpecDriver == InitDriver /\ [][NextDriver]_vars

\* C28: create_driver makes at most 3 attempts; while it runs and when it
\* raises no attempt has succeeded, and it raises after exactly 3 attempts;
\* when it returns, its last attempt is the only one that succeeded.
C28_AtMostThreeAttempts ==
    /\ Len(tries) <= 3
    /\ hook = "creating" => \A k \in DOMAIN tries : tries[k] # "ok"
    /\ hook = "raised" => Len(tries) = 3 /\ \A k \in DOMAIN tries : tries[k] # "ok"
    /\ hook = "returned"
          => /\ tries # <<>>
             /\ \A k \in DOMAIN tries : (tries[k] = "ok") <=> (k = Len(tries))

C28_Witness ==
    /\ hook = "returned"
    /\ Len(tries) = 2
    /\ tries[1] = "probe_failed"
    /\ context_driver = created

\* C29: every driver close_driver was called with has had quit() called, and
\* is no longer in context.driver.
C29_CloseDriverQuits ==
    \A d \in closed : d \in quit_called /\ context_driver # d

\* C30: at most one WebDriver that was created has not had quit() called.
C30_AtMostOneLiveDriver ==
    Cardinality((1..created) \ quit_called) <= 1

\* ------------------------------------- BehaveRunner._log_failure in the pool
\* Every unit of LogUnits has been submitted to a pool of pool_size threads.
\* Each print call is one step of the thread that makes it.
LogUnits == 1..MaxUnits

PreviewLimit == 500

\* Length of a captured stream longer than the preview
LongOutput == PreviewLimit + 1

\* What subprocess.run can hand back: exit code 0; or a non-zero code with
\* nothing captured, with a long stderr, or with a long stderr and a stdout of
\* one character.
CompletedProcesses ==
    {[returncode |-> 0, stderr |-> 0, stdout |-> 0],
     [returncode |-> 1, stderr |-> 0, stdout |-> 0],
     [returncode |-> 1, stderr |-> LongOutput, stdout |-> 0],
     [returncode |-> 1, stderr |-> LongOutput, stdout |-> 1]}

NoProcess == [returncode |-> 0, stderr |-> 0, stdout |-> 0]

\* s[:500] of a string of n characters has this many
Preview(n) == IF n > PreviewLimit THEN PreviewLimit ELSE n

InitLog ==
    /\ RunnerOff
    /\ fs = MkFs(FALSE, 0, 0, FALSE)
    /\ feature_name = None
    /\ AuxIdle
    /\ SettingsIdle /\ DriverIdle
    /\ pool_size \in 1..MaxWorkers
    /\ printer = [i \in LogUnits |-> "queued"]
    /\ captured = [i \in LogUnits |-> NoProcess]
    /\ console = <<>>

\* A pool thread takes the oldest queued unit and run_feature prints its
\* "Running" line (line 58)
LogRun(i) ==
    /\ printer[i] = "queued"
    /\ \A j \in LogUnits : j < i => printer[j] # "queued"
    /\ Cardinality({j \in LogUnits : printer[j] \notin {"queued", "done"}}) < pool_size
    /\ console' = Append(console, [unit |-> i, line |-> "running", size |-> 0])
    /\ printer' = [printer EXCEPT ![i] = "subprocess"]
    /\ UNCHANGED <<pool_size, captured>>
    /\ UNCHANGED <<rvars, aux, svars, dvars>>

\* subprocess.run returns with the output captured (lines 61-65)
LogSubprocessExit(i, r) ==
    /\ printer[i] = "subprocess"
    /\ captured' = [captured EXCEPT ![i] = r]
    /\ printer' = [printer EXCEPT ![i] = IF r.returncode # 0 THEN "exit_code" ELSE "done"]
    /\ UNCHANGED <<pool_size, console>>
    /\ UNCHANGED <<rvars, aux, svars, dvars>>

\* _log_failure, line 135
LogExitCode(i) ==
    /\ printer[i] = "exit_code"
    /\ console' = Append(console, [unit |-> i, line |-> "exit_code", size |-> 0])
    /\ printer' = [printer EXCEPT ![i] =
                      IF captured[i].stderr > 0 THEN "stderr"
                      ELSE IF captured[i].stdout > 0 THEN "stdout"
                      ELSE "done"]
    /\ UNCHANGED <<pool_size, captured>>
    /\ UNCHANGED <<rvars, aux, svars, dvars>>

\* _log_failure, lines 136-137
LogStderr(i) ==
    /\ printer[i] = "stderr"
    /\ console' = Append(console, [unit |-> i, line |-> "stderr",
                                   size |-> Preview(captured[i].stderr)])
    /\ printer' = [printer EXCEPT ![i] = IF captured[i].stdout > 0 THEN "stdout" ELSE "done"]
    /\ UNCHANGED <<pool_size, captured>>
    /\ UNCHANGED <<rvars, aux, svars, dvars>>

\* _log_failure, lines 138-139
LogStdout(i) ==
    /\ printer[i] = "stdout"
    /\ console' = Append(console, [unit |-> i, line |-> "stdout",
                                   size |-> Preview(captured[i].stdout)])
    /\ printer' = [printer EXCEPT ![i] = "done"]
    /\ UNCHANGED <<pool_size, captured>>
    /\ UNCHANGED <<rvars, aux, svars, dvars>>

NextLog ==
    \E i \in LogUnits :
        \/ LogRun(i)
        \/ \E r \in CompletedProcesses : LogSubprocessExit(i, r)
        \/ LogExitCode(i)
        \/ LogStderr(i)
        \/ LogStdout(i)

SpecLog == InitLog /\ [][NextLog]_vars

\* The lines of a failure summary
SummaryLines == {"exit_code", "stderr", "stdout"}

\* C23: no preview is longer than 500 characters, and between two lines of the
\* failure summary of one unit the console holds no line of another unit.
C23_FailureSummaryNotInterleaved ==
    /\ \A a \in DOMAIN console : console[a].size <= 500
    /\ \A a, b \in DOMAIN console :
          (/\ a < b
           /\ console[a].unit = console[b].unit
           /\ console[a].line \in SummaryLines
           /\ console[b].line \in SummaryLines)
             => \A c \in a..b : console[c].unit = console[a].unit

\* ------------------------------------------------- the parallel run, fairly
\* execute with --mode parallel and at least one worker, over a base directory
\* holding 1..MaxUnits feature files.
InitLive ==
    /\ AuxIdle
    /\ SettingsIdle /\ LogIdle /\ DriverIdle
    /\ mode = "parallel"
    /\ workers \in 1..MaxWorkers
    /\ feature_name = None
    /\ auto_generate \in BOOLEAN
    /\ fs \in {MkFs(TRUE, k, 0, FALSE) : k \in 1..MaxUnits}
    /\ pc = "discover"
    /\ feature_files = <<>>
    /\ index = 0
    /\ unit = <<>>
    /\ earlier = NothingLeft
    /\ temp_exists = FALSE
    /\ temp_results = <<>>
    /\ result_dirs = <<>>
    /\ yielded = {}
    /\ allure_exists = FALSE
    /\ allure = {}
    /\ converted = 0
    /\ report = "none"
    /\ exit_code = -1
    /\ pending = "none"
    /\ cleanup = "none"
    /\ report_history = FALSE
    /\ results_history = FALSE

\* The ways a run_feature call ends that are told apart here: exit code 0 with
\* a scenario written, a non-zero exit code with no file, an exception.
LiveOutcomes ==
    {[kind |-> "return", rc |-> 0, file |-> [state |-> "ok", scenarios |-> MaxScenarios]],
     [kind |-> "return", rc |-> 1, file |-> NoFile],
     [kind |-> "raise", rc |-> 0, file |-> NoFile]}

\* The steps of the thread that called execute
MainThread ==
    \/ Discover
    \/ CleanupOldResults("none")
    \/ RunParallelEnter
    \/ Submit
    \/ SubmitDone
    \/ \E i \in Units : AsCompleted(i)
    \/ ParallelReturn
    \/ ProcessResults
    \/ ConvertResults
    \/ \E cli \in BOOLEAN : GenerateCheck(cli)
    \/ PreserveHistory
    \/ \E ok \in BOOLEAN : GenerateReport(ok)
    \/ \E removed \in BOOLEAN, legacy \in LegacyStates : CleanupTempFiles(removed, legacy)

\* run_feature of unit i ends: its subprocess has exited
SubprocessExit(i) == \E o \in LiveOutcomes : WorkerFinish(i, o)

NextLive ==
    \/ MainThread
    \/ \E i \in Units : WorkerStart(i)
    \/ \E i \in Units : SubprocessExit(i)

\* The calling thread keeps running, an idle pool thread takes queued work,
\* and the subprocess of every started unit exits.
SpecLive ==
    /\ InitLive
    /\ [][NextLive]_vars
    /\ WF_vars(MainThread)
    /\ \A i \in 1..MaxUnits : WF_vars(WorkerStart(i)) /\ WF_vars(SubprocessExit(i))

\* C25: whatever the worker count (at least 1), every queued unit is
\* eventually finished, once units are being submitted run_parallel
\* eventually returns, and execute eventually ends (with its exit code, or
\* with the exception of the legacy-file unlink).
C25_ParallelRunCompletes ==
    /\ \A i \in 1..MaxUnits : (i \in Queued) ~> (i \in Finished)
    /\ (pc = "submit") ~> (pc = "process")
    /\ <>(pc = "done" /\ pending \in {"none", "unlink"})

\* A run with fewer workers than units has ended with every unit finished.
C25_Witness ==
    /\ pc = "done"
    /\ workers < N
    /\ Finished = Units

\* ------------------------------------------- execute after an earlier run
\* execute started in a project where an earlier run left its directories;
\* every feature file of the base directory is selected.
InitRerun ==
    /\ AuxIdle
    /\ SettingsIdle /\ LogIdle /\ DriverIdle
    /\ mode \in {"single", "parallel"}
    /\ workers \in (IF mode = "parallel" THEN 0..MaxWorkers ELSE {1})
    /\ feature_name = None
    /\ auto_generate \in BOOLEAN
    /\ fs \in FsCases
    /\ pc = "discover"
    /\ feature_files = <<>>
    /\ index = 0
    /\ unit = <<>>
    /\ earlier = BothLeft
    /\ temp_exists = earlier.temp
    /\ temp_results = (IF earlier.temp THEN StaleDir :> StaleFile ELSE <<>>)
    /\ result_dirs = <<>>
    /\ yielded = {}
    /\ allure_exists = earlier.merged
    /\ allure = (IF earlier.merged THEN StaleRecords ELSE {})
    /\ converted = 0
    /\ report = "none"
    /\ exit_code = -1
    /\ pending = "none"
    /\ cleanup = "none"
    /\ report_history \in (IF auto_generate THEN BOOLEAN ELSE {FALSE})
    /\ results_history = FALSE

SpecRerun == InitRerun /\ [][Next]_vars

\* ----------------------------------- what ends up in the merged results
\* The units whose run_feature call has begun
Executed == {i \in Units : unit[i].st \notin {"new", "queued"}}

\* C26: once the scheduler is past, every record of the merged results comes
\* from a directory of the list the scheduler returned, and the converted
\* count counts no other record.
C26_ConvertedFilesInReturnedDirs ==
    (N > 0 /\ pc \in {"process", "convert", "generate", "preserve", "allure_generate",
                      "finally", "done"})
        => /\ \A r \in allure : r[1] \in Range(result_dirs)
           /\ converted <= Cardinality({r \in allure : r[1] \in Range(result_dirs)})

\* C27: as soon as a unit has been executed, the temporary directory holds
\* nothing an earlier run left, and from then on every record of the merged
\* results belongs to a unit executed in this run.
C27_OldResultsRemovedBeforeUnits ==
    Executed # {}
        => /\ StaleDir \notin DOMAIN temp_results
           /\ \A r \in allure : r[1] \in Executed

\* An earlier run had left both directories, and this run converted a scenario.
C27_Witness ==
    /\ pc = "done"
    /\ earlier.merged /\ earlier.temp
    /\ allure # {}

====
